---- MODULE Spec2Model ----
(***************************************************************************)
(* Model of ext/libvirt/secret.c, the Libvirt::Secret binding, together    *)
(* with the secret registry and value store it calls into.                 *)
(*                                                                         *)
(* The binding (secret.c) is translated function by function.  The store   *)
(* behind the virSecret* / virConnect* entry points and the helper macros  *)
(* of common.h are not part of secret.c; they are modelled from the        *)
(* specification (sections 3 to 7) and are marked as such where defined.   *)
(***************************************************************************)
EXTENDS Integers, Sequences, FiniteSets, TLC

(***************************************************************************)
(* Bounds of the model.                                                    *)
(***************************************************************************)
MaxSecrets == 2
MaxHandles == 2
MaxLen == 2
MaxByte == 1
NThreads == 2

(***************************************************************************)
(* Program constants.                                                      *)
(***************************************************************************)
NULL == 0
VIR_SECRET_USAGE_TYPE_NONE == 0
VIR_SECRET_USAGE_TYPE_VOLUME == 1
VIR_SECRET_USAGE_TYPE_ISCSI == 3
KnownUsageTypes == 0 .. 4

Gone == -1

VARIABLES connOpen, secrets, usageIndex, vault, residue, nextUuid,
          handles, last, thr,
          lastSet   \* history: per record, the string of its latest set_value

store == <<secrets, usageIndex, vault, residue, nextUuid>>
vars == <<connOpen, secrets, usageIndex, vault, residue, nextUuid,
          handles, last, thr, lastSet>>

(***************************************************************************)
(* Ruby values as the C code sees them.                                    *)
(***************************************************************************)
RNil == [t |-> "nil"]
Fix(n) == [t |-> "fix", n |-> n]
Str(s) == [t |-> "str", s |-> s]
Hnd(h) == [t |-> "secret", h |-> h]
Ary(a) == [t |-> "ary", a |-> a]

NIL_P(v) == v.t = "nil"

\* INT2FIX / the bit pattern of a Fixnum VALUE: (n << 1) | 1.
INT2FIX(n) == 2 * n + 1

\* The machine word of a VALUE when it is handed to C as an integer.
ValueBits(v) == IF v.t = "fix" THEN INT2FIX(v.n) ELSE 4

\* NUM2UINT and INT2NUM on Fixnums; the inputs of the model are small
\* non-negative numbers, which both conversions leave as they are.
NUM2UINT(v) == v.n
INT2NUM(n) == Fix(n)

\* Conversion of a machine word to a C int (no truncation on small words).
ToInt(w) == w

\* strlen(): the bytes before the first zero byte of a buffer.
CStrLen(buf) ==
  IF \E i \in 1 .. Len(buf) : buf[i] = 0
  THEN (CHOOSE i \in 1 .. Len(buf) :
          buf[i] = 0 /\ \A j \in 1 .. (i - 1) : buf[j] # 0) - 1
  ELSE Len(buf)

\* rb_str_new(ptr, len) and rb_str_new2(ptr).
rb_str_new(buf, len) == Str(SubSeq(buf, 1, len))
rb_str_new2(buf) == Str(SubSeq(buf, 1, CStrLen(buf)))

\* RSTRING(value)->ptr: the bytes of a Ruby string followed by a NUL.
RSTRING_ptr(v) == v.s \o <<0>>
RSTRING_len(v) == Len(v.s)

(***************************************************************************)
(* Results of a binding call: a returned VALUE or a raised exception that  *)
(* carries the store's error kind (create_error copies the last error).    *)
(***************************************************************************)
Ok(v) == [ok |-> TRUE, exc |-> "", kind |-> "", val |-> v]
Raise(exc, kind) == [ok |-> FALSE, exc |-> exc, kind |-> kind, val |-> RNil]
Call(op, h, args, res) == [op |-> op, h |-> h, args |-> args, res |-> res]

(***************************************************************************)
(* Inputs.                                                                 *)
(***************************************************************************)
Bytes == 0 .. MaxByte
RECURSIVE SeqsUpTo(_)
SeqsUpTo(n) ==
  IF n = 0 THEN {<<>>}
  ELSE LET shorter == SeqsUpTo(n - 1)
       IN shorter \cup {Append(s, b) : s \in {x \in shorter : Len(x) = n - 1}, b \in Bytes}
Values == SeqsUpTo(MaxLen)

Xml(ut, uid, eph, priv) ==
  [usageType |-> ut, usageID |-> uid, isEphemeral |-> eph, isPrivate |-> priv]
XMLInputs ==
  { Xml(VIR_SECRET_USAGE_TYPE_VOLUME, "vol-1", FALSE, FALSE),
    Xml(VIR_SECRET_USAGE_TYPE_ISCSI, "vol-1", TRUE, FALSE),
    Xml(VIR_SECRET_USAGE_TYPE_NONE, "", FALSE, TRUE),
    Xml(VIR_SECRET_USAGE_TYPE_VOLUME, "", FALSE, FALSE) }
FlagArgs == {RNil, Fix(0), Fix(1)}
UsageTypeArgs == {Fix(VIR_SECRET_USAGE_TYPE_NONE), Fix(VIR_SECRET_USAGE_TYPE_VOLUME),
                  Fix(VIR_SECRET_USAGE_TYPE_ISCSI)}
UsageIDArgs == {Str("vol-1")}
HandleFlagArgs == {RNil, Fix(1)}
UUIDs == 1 .. MaxSecrets
UUIDArgs == 1 .. (MaxSecrets + 1)
Threads == 1 .. NThreads

(***************************************************************************)
(* The secret store (Identity Index, Record Store, Value Vault).           *)
(***************************************************************************)
Live == DOMAIN secrets
Zeros(n) == [i \in 1 .. n |-> 0]
Restrict(f, S) == [x \in S |-> f[x]]

\* Record Store create(): the validation of a parsed descriptor.
ValidDescriptor(xml) ==
  /\ xml.usageType \in KnownUsageTypes
  /\ xml.usageType # VIR_SECRET_USAGE_TYPE_NONE => xml.usageID # ""

UsageKey(rec) == <<rec.usageType, rec.usageID>>

\* Facade define: the error kind of a define, "" when it succeeds.
virSecretDefineXML_err(xml, flags) ==
  IF flags # 0 THEN "InvalidFlags"
  ELSE IF ~ValidDescriptor(xml) THEN "MalformedDescriptor"
  ELSE IF \/ nextUuid \in Live
          \/ /\ xml.usageType # VIR_SECRET_USAGE_TYPE_NONE
             /\ UsageKey(xml) \in DOMAIN usageIndex
       THEN "DuplicateKey"
  ELSE ""

\* Identity Index insert(): both indices in one step.
IndexInsert(xml, u) ==
  /\ secrets' = (u :> xml) @@ secrets
  /\ usageIndex' = IF xml.usageType # VIR_SECRET_USAGE_TYPE_NONE
                   THEN (UsageKey(xml) :> u) @@ usageIndex
                   ELSE usageIndex

\* Facade define: create + index insert as one unit; NULL on failure.
virSecretDefineXML(xml, flags, ret) ==
  IF virSecretDefineXML_err(xml, flags) = ""
  THEN /\ ret = nextUuid
       /\ IndexInsert(xml, nextUuid)
       /\ nextUuid' = nextUuid + 1
       /\ UNCHANGED <<vault, residue>>
  ELSE /\ ret = NULL
       /\ UNCHANGED store

virSecretLookupByUUIDString(uuid) == IF uuid \in Live THEN uuid ELSE NULL

virSecretLookupByUsage(usageType, usageID) ==
  IF <<usageType, usageID>> \in DOMAIN usageIndex
  THEN usageIndex[<<usageType, usageID>>]
  ELSE NULL

virConnectNumOfSecrets == Cardinality(Live)

\* listAll(): the UUIDs of one snapshot, in ascending order.
RECURSIVE ListFrom(_, _)
ListFrom(u, S) ==
  IF S = {} THEN <<>>
  ELSE IF u \in S THEN <<u>> \o ListFrom(u + 1, S \ {u})
  ELSE ListFrom(u + 1, S)
virConnectListSecrets == ListFrom(1, DOMAIN secrets)

\* Value Vault clear(): zero the bytes, then remove the entry.
VaultClear(S) ==
  /\ residue' = [u \in (DOMAIN vault \cap S) |-> Zeros(Len(vault[u]))] @@ residue
  /\ vault' = Restrict(vault, DOMAIN vault \ S)

\* Identity Index remove() of a set of records, both indices in one step.
IndexRemove(S) ==
  /\ secrets' = Restrict(secrets, Live \ S)
  /\ usageIndex' = Restrict(usageIndex, {k \in DOMAIN usageIndex : usageIndex[k] \notin S})

\* Facade undefine: 0 on success, -1 on a stale handle.
virSecretUndefine(ptr, ret) ==
  IF ptr \in Live
  THEN /\ ret = 0
       /\ IndexRemove({ptr})
       /\ VaultClear({ptr})
       /\ UNCHANGED nextUuid
  ELSE /\ ret = -1
       /\ UNCHANGED store

\* Facade setValue: copies len bytes of the caller's buffer into the vault.
virSecretSetValue(ptr, buf, len, flags, ret) ==
  IF ptr \in Live
  THEN /\ ret = 0
       /\ vault' = (ptr :> SubSeq(buf, 1, len)) @@ vault
       /\ UNCHANGED <<secrets, usageIndex, residue, nextUuid>>
  ELSE /\ ret = -1
       /\ UNCHANGED store

\* Facade getValue: a buffer and its size, or NULL with the error kind.
virSecretGetValue(ptr, flags) ==
  IF ptr \notin Live THEN [ptr |-> NULL, size |-> 0, buf |-> <<>>, kind |-> "StaleHandle"]
  ELSE IF ptr \notin DOMAIN vault
       THEN [ptr |-> NULL, size |-> 0, buf |-> <<>>, kind |-> "ValueNotSet"]
  ELSE [ptr |-> 1, size |-> Len(vault[ptr]), buf |-> vault[ptr], kind |-> ""]

\* Handle getters: they fail once the record behind the handle is gone.
virSecretGetUUIDString(ptr) ==
  IF ptr \in Live THEN [r |-> 0, uuid |-> ptr] ELSE [r |-> -1, uuid |-> NULL]

virSecretGetUsageType(ptr) == IF ptr \in Live THEN secrets[ptr].usageType ELSE -1

virSecretGetUsageID(ptr) == IF ptr \in Live THEN Str(secrets[ptr].usageID) ELSE RNil

\* Record Store render(): a private record hides whether a value is set.
virSecretGetXMLDesc(ptr, flags) ==
  IF ptr \in Live
  THEN Str([uuid |-> ptr, usageType |-> secrets[ptr].usageType,
            usageID |-> secrets[ptr].usageID,
            isEphemeral |-> secrets[ptr].isEphemeral,
            isPrivate |-> secrets[ptr].isPrivate,
            hasValue |-> IF secrets[ptr].isPrivate THEN FALSE ELSE ptr \in DOMAIN vault])
  ELSE RNil

(***************************************************************************)
(* Initial state: an open connection on an empty store.                    *)
(***************************************************************************)
NoCall == Call("none", 0, <<>>, Ok(RNil))
NoThreads == [t \in Threads |-> [pc |-> "off", xml |-> RNil, res |-> Ok(RNil)]]

Init ==
  /\ connOpen = TRUE
  /\ secrets = <<>>
  /\ usageIndex = <<>>
  /\ vault = <<>>
  /\ residue = <<>>
  /\ nextUuid = 1
  /\ handles = <<>>
  /\ last = NoCall
  /\ thr = NoThreads
  /\ lastSet = <<>>

(***************************************************************************)
(* The binding: handle objects (secret.c lines 31 to 41).                  *)
(***************************************************************************)
\* secret_get: the virSecretPtr a handle object wraps.
secret_get(h) == handles[h]

\* A handle object that still wraps a pointer (not released, not collected).
Bound(h) == h \in DOMAIN handles /\ handles[h] \notin {NULL, Gone}

\* secret_new: wrap a pointer in a new handle object.
\* Handles held by the callers of SpecConc do not count against the bound.
CanWrap == Len(handles) < MaxHandles + Cardinality({t \in Threads : thr[t].pc = "done"})
secret_new(ptr) == handles' = Append(handles, ptr)
NewHandle == Hnd(Len(handles) + 1)

\* secret_free: the finalizer the collector runs on a handle that still wraps
\* a pointer; it releases the reference and touches nothing in the store.
secret_free(h) ==
  /\ Bound(h)
  /\ handles' = [handles EXCEPT ![h] = Gone]
  /\ UNCHANGED <<connOpen, store, last, thr, lastSet>>

(***************************************************************************)
(* The binding: connection methods.                                        *)
(***************************************************************************)
libvirt_conn_num_of_secrets ==
  /\ connOpen
  /\ last' = Call("num_of_secrets", 0, <<>>, Ok(INT2NUM(virConnectNumOfSecrets)))
  /\ UNCHANGED <<connOpen, store, handles, thr, lastSet>>

\* Variant: the loop that fills the array stops one entry short.
Mut_list_secrets_short ==
  Ary(SubSeq(virConnectListSecrets, 1, Len(virConnectListSecrets) - 1))

\* The array built from the listing of one snapshot.
list_secrets_result == Ary(virConnectListSecrets)

libvirt_conn_list_secrets ==
  /\ connOpen
  /\ last' = Call("list_secrets", 0, <<>>, Ok(list_secrets_result))
  /\ UNCHANGED <<connOpen, store, handles, thr, lastSet>>

libvirt_conn_lookup_secret_by_uuid(uuid) ==
  /\ connOpen
  /\ LET secret == virSecretLookupByUUIDString(uuid)
     IN IF secret = NULL
        THEN /\ last' = Call("lookup_secret_by_uuid", 0, <<uuid>>,
                             Raise("RetrieveError", "NotFound"))
             /\ UNCHANGED handles
        ELSE /\ CanWrap
             /\ secret_new(secret)
             /\ last' = Call("lookup_secret_by_uuid", 0, <<uuid>>, Ok(NewHandle))
  /\ UNCHANGED <<connOpen, store, thr, lastSet>>

\* The usage type handed to virSecretLookupByUsage (line 92): the VALUE itself.
lookup_usage_type(usageType) == ToInt(ValueBits(usageType))

libvirt_conn_lookup_secret_by_usage(usageType, usageID) ==
  /\ connOpen
  /\ IF NIL_P(usageID)
     THEN /\ last' = Call("lookup_secret_by_usage", 0, <<usageType, usageID>>,
                          Raise("TypeError", ""))
          /\ UNCHANGED handles
     ELSE LET secret == virSecretLookupByUsage(lookup_usage_type(usageType), usageID.s)
          IN IF secret = NULL
             THEN /\ last' = Call("lookup_secret_by_usage", 0, <<usageType, usageID>>,
                                  Raise("RetrieveError", "NotFound"))
                  /\ UNCHANGED handles
             ELSE /\ CanWrap
                  /\ secret_new(secret)
                  /\ last' = Call("lookup_secret_by_usage", 0, <<usageType, usageID>>,
                                  Ok(NewHandle))
  /\ UNCHANGED <<connOpen, store, thr, lastSet>>

\* Variant: the flags VALUE is handed over without NUM2UINT.
Mut_define_flags_raw(flags) ==
  IF NIL_P(flags) THEN ValueBits(Fix(0)) ELSE ValueBits(flags)

\* The flags handed to virSecretDefineXML (lines 111 to 114).
define_flags(flags) == IF NIL_P(flags) THEN NUM2UINT(Fix(0)) ELSE NUM2UINT(flags)

\* Variant: the NULL check on the returned pointer is missing.
Mut_define_result_nocheck(secret, kind) == Ok(NewHandle)

\* The outcome of define_secret_xml from the pointer returned (lines 115 to 117).
define_result(secret, kind) ==
  IF secret = NULL THEN Raise("DefinitionError", kind) ELSE Ok(NewHandle)

\* define_secret_xml without the bookkeeping of who called it.
DefineCall(xml, flags) ==
  /\ connOpen
  /\ LET f == define_flags(flags)
         kind == virSecretDefineXML_err(xml, f)
     IN /\ kind = "" => CanWrap /\ nextUuid <= MaxSecrets
        /\ \E secret \in {NULL} \cup UUIDs :
             /\ virSecretDefineXML(xml, f, secret)
             /\ last' = Call("define_secret_xml", 0, <<xml, flags>>,
                             define_result(secret, kind))
             /\ IF define_result(secret, kind).ok
                THEN secret_new(secret)
                ELSE UNCHANGED handles
  /\ UNCHANGED <<connOpen, lastSet>>

libvirt_conn_define_secret_xml(xml, flags) ==
  /\ DefineCall(xml, flags)
  /\ UNCHANGED thr

(***************************************************************************)
(* The binding: methods of a handle.                                       *)
(***************************************************************************)
\* gen_call_string: a NULL string from the store raises, any other is returned.
gen_call_string(str) ==
  IF NIL_P(str) THEN Raise("Error", "StaleHandle") ELSE Ok(str)

libvirt_secret_uuid(h) ==
  /\ connOpen /\ Bound(h)
  /\ LET ret == virSecretGetUUIDString(secret_get(h))
     IN last' = Call("uuid", h, <<>>,
                     IF ret.r < 0 THEN Raise("RetrieveError", "StaleHandle")
                     ELSE Ok(Str(ret.uuid)))
  /\ UNCHANGED <<connOpen, store, handles, thr, lastSet>>

libvirt_secret_usagetype(h) ==
  /\ connOpen /\ Bound(h)
  /\ LET ret == virSecretGetUsageType(secret_get(h))
     IN last' = Call("usagetype", h, <<>>,
                     IF ret < 0 THEN Raise("RetrieveError", "StaleHandle")
                     ELSE Ok(INT2NUM(ret)))
  /\ UNCHANGED <<connOpen, store, handles, thr, lastSet>>

libvirt_secret_usageid(h) ==
  /\ connOpen /\ Bound(h)
  /\ last' = Call("usageid", h, <<>>, gen_call_string(virSecretGetUsageID(secret_get(h))))
  /\ UNCHANGED <<connOpen, store, handles, thr, lastSet>>

\* The flags of a method whose flags argument may be omitted.
opt_flags(flags) == IF NIL_P(flags) THEN NUM2UINT(Fix(0)) ELSE NUM2UINT(flags)

libvirt_secret_xml_desc(h, flags) ==
  /\ connOpen /\ Bound(h)
  /\ last' = Call("xml_desc", h, <<flags>>,
                  gen_call_string(virSecretGetXMLDesc(secret_get(h), opt_flags(flags))))
  /\ UNCHANGED <<connOpen, store, handles, thr, lastSet>>

\* The outcome of set_value from virSecretSetValue's return (lines 203 to 205).
set_value_result(r) ==
  IF r < 0 THEN Raise("RetrieveError", "StaleHandle") ELSE Ok(RNil)

libvirt_secret_set_value(h, value, flags) ==
  /\ connOpen /\ Bound(h)
  /\ \E r \in {0, -1} :
       /\ virSecretSetValue(secret_get(h), RSTRING_ptr(value), RSTRING_len(value),
                            opt_flags(flags), r)
       /\ last' = Call("set_value", h, <<value, flags>>, set_value_result(r))
       /\ lastSet' = IF set_value_result(r).ok
                     THEN (secret_get(h) :> value) @@ lastSet
                     ELSE lastSet
  /\ UNCHANGED <<connOpen, handles, thr>>

\* Variant: the string is built with rb_str_new2, which stops at a zero byte.
Mut_get_value_strlen(ret) ==
  IF ret.ptr = NULL THEN Raise("RetrieveError", ret.kind)
  ELSE Ok(rb_str_new2(ret.buf))

\* Variant: the NULL check on the returned buffer is missing.
Mut_get_value_nocheck(ret) == Ok(rb_str_new(ret.buf, ret.size))

\* The outcome of get_value from what virSecretGetValue returned
\* (lines 227 to 229): a string of value_size bytes.
get_value_result(ret) ==
  IF ret.ptr = NULL THEN Raise("RetrieveError", ret.kind)
  ELSE Ok(rb_str_new(ret.buf, ret.size))

libvirt_secret_get_value(h, flags) ==
  /\ connOpen /\ Bound(h)
  /\ last' = Call("get_value", h, <<flags>>,
                  get_value_result(virSecretGetValue(secret_get(h), opt_flags(flags))))
  /\ UNCHANGED <<connOpen, store, handles, thr, lastSet>>

\* Variant: the return value of virSecretUndefine is ignored.
Mut_undefine_result_ignored(r) == Ok(RNil)

\* The outcome of undefine from virSecretUndefine's return.
undefine_result(r) ==
  IF r < 0 THEN Raise("Error", "StaleHandle") ELSE Ok(RNil)

\* Variant: undefine only drops the reference and reports success.
Mut_undefine_call_free(ptr, r) == r = 0 /\ UNCHANGED store

\* The store call undefine makes on the wrapped pointer (line 239).
undefine_call(ptr, r) == virSecretUndefine(ptr, r)

libvirt_secret_undefine(h) ==
  /\ connOpen /\ Bound(h)
  /\ \E r \in {0, -1} :
       /\ undefine_call(secret_get(h), r)
       /\ last' = Call("undefine", h, <<>>, undefine_result(r))
       /\ lastSet' = IF undefine_result(r).ok
                     THEN Restrict(lastSet, DOMAIN lastSet \ {secret_get(h)})
                     ELSE lastSet
  /\ UNCHANGED <<connOpen, handles, thr>>

\* The pointer a handle wraps once free has run on it.
free_ptr(ptr) == NULL

\* free: release the reference if the handle still wraps one; a repeated
\* free finds no pointer and does nothing.
libvirt_secret_free(h) ==
  /\ h \in DOMAIN handles /\ handles[h] # Gone
  /\ handles' = [handles EXCEPT ![h] = IF @ # NULL THEN free_ptr(@) ELSE @]
  /\ last' = Call("free", h, <<>>, Ok(RNil))
  /\ UNCHANGED <<connOpen, store, thr, lastSet>>

(***************************************************************************)
(* Connection teardown: ephemeral records go, their values are cleared.    *)
(***************************************************************************)
ConnClose ==
  /\ connOpen
  /\ connOpen' = FALSE
  /\ LET eph == {u \in Live : secrets[u].isEphemeral}
     IN /\ IndexRemove(eph)
        /\ VaultClear(eph)
        /\ lastSet' = Restrict(lastSet, DOMAIN lastSet \ eph)
  /\ last' = Call("close", 0, <<>>, Ok(RNil))
  /\ UNCHANGED <<nextUuid, handles, thr>>

(***************************************************************************)
(* Callers of one connection, each making one define call.                 *)
(***************************************************************************)
ThreadDefine(t) ==
  /\ thr[t].pc = "ready"
  /\ DefineCall(thr[t].xml, RNil)
  /\ thr' = [thr EXCEPT ![t] = [pc |-> "done", xml |-> @.xml, res |-> last'.res]]

HandleIds == 1 .. (MaxHandles + NThreads)

Next ==
  \/ libvirt_conn_num_of_secrets
  \/ libvirt_conn_list_secrets
  \/ \E uuid \in UUIDArgs : libvirt_conn_lookup_secret_by_uuid(uuid)
  \/ \E ut \in UsageTypeArgs, uid \in UsageIDArgs \cup {RNil} :
       libvirt_conn_lookup_secret_by_usage(ut, uid)
  \/ \E xml \in XMLInputs, flags \in FlagArgs : libvirt_conn_define_secret_xml(xml, flags)
  \/ \E h \in HandleIds : libvirt_secret_uuid(h)
  \/ \E h \in HandleIds : libvirt_secret_usagetype(h)
  \/ \E h \in HandleIds : libvirt_secret_usageid(h)
  \/ \E h \in HandleIds, flags \in HandleFlagArgs : libvirt_secret_xml_desc(h, flags)
  \/ \E h \in HandleIds, b \in Values, flags \in HandleFlagArgs :
       libvirt_secret_set_value(h, Str(b), flags)
  \/ \E h \in HandleIds, flags \in HandleFlagArgs : libvirt_secret_get_value(h, flags)
  \/ \E h \in HandleIds : libvirt_secret_undefine(h)
  \/ \E h \in HandleIds : libvirt_secret_free(h)
  \/ \E h \in HandleIds : secret_free(h)
  \/ ConnClose

Spec == Init /\ [][Next]_vars

(***************************************************************************)
(* N callers defining on one connection, then lookups.                     *)
(***************************************************************************)
ValidXMLs == {x \in XMLInputs : ValidDescriptor(x)}

InitConc ==
  /\ connOpen = TRUE
  /\ secrets = <<>>
  /\ usageIndex = <<>>
  /\ vault = <<>>
  /\ residue = <<>>
  /\ nextUuid = 1
  /\ handles = <<>>
  /\ last = NoCall
  /\ lastSet = <<>>
  /\ thr \in [Threads -> {[pc |-> "ready", xml |-> x, res |-> Ok(RNil)] : x \in ValidXMLs}]

AllDone == \A t \in Threads : thr[t].pc = "done"

NextConc ==
  \/ \E t \in Threads : ThreadDefine(t)
  \/ AllDone /\ \E uuid \in UUIDArgs : libvirt_conn_lookup_secret_by_uuid(uuid)
  \/ AllDone /\ \E ut \in UsageTypeArgs, uid \in UsageIDArgs :
       libvirt_conn_lookup_secret_by_usage(ut, uid)

SpecConc == InitConc /\ [][NextConc]_vars

(***************************************************************************)
(* Properties.                                                             *)
(***************************************************************************)
Stepped == last' # last
Dead == (1 .. (nextUuid - 1)) \ Live
HandleOps == {"uuid", "usagetype", "usageid", "xml_desc", "set_value", "get_value", "undefine"}
Range(f) == {f[x] : x \in DOMAIN f}

\* C1: a get_value on a record whose latest successful set_value stored b
\* (no undefine since) returns exactly b: same length, same bytes, same order.
C1_SetThenGet ==
  (last.op = "get_value" /\ Bound(last.h) /\ secret_get(last.h) \in DOMAIN lastSet)
    => last.res = Ok(lastSet[secret_get(last.h)])

C1_Witness ==
  /\ last.op = "get_value"
  /\ Bound(last.h) /\ secret_get(last.h) \in DOMAIN lastSet
  /\ last.res = Ok(Str(<<0, 1>>))

\* C2: get_value on a defined record that never had set_value fails with
\* ValueNotSet, returns no byte string, and leaves the store unchanged.
C2_GetValueNeverSet ==
  /\ []((last.op = "get_value" /\ Bound(last.h) /\ secret_get(last.h) \in Live
           /\ secret_get(last.h) \notin DOMAIN lastSet)
          => (~last.res.ok /\ last.res.kind = "ValueNotSet" /\ last.res.val = RNil))
  /\ [][(Stepped /\ last'.op = "get_value" /\ ~last'.res.ok) => store' = store]_vars

C2_Witness ==
  /\ last.op = "get_value" /\ last.res.kind = "ValueNotSet"
  /\ Bound(last.h) /\ secret_get(last.h) \in Live

\* C3: once undefine has succeeded on a handle, every method of that handle
\* fails with StaleHandle, lookup_secret_by_uuid of the record's UUID fails
\* with NotFound, and the record never becomes defined again.
C3_StaleAfterUndefine ==
  [][/\ (Stepped /\ last'.op \in HandleOps /\ secret_get(last'.h) \in Dead)
          => (~last'.res.ok /\ last'.res.kind = "StaleHandle" /\ store' = store)
     /\ (Stepped /\ last'.op = "lookup_secret_by_uuid" /\ last'.args[1] \in Dead)
          => (~last'.res.ok /\ last'.res.kind = "NotFound")
     /\ (Stepped /\ last'.op = "undefine" /\ last'.res.ok)
          => (secret_get(last'.h) \in Live /\ secret_get(last'.h) \in Dead')
     /\ Dead \subseteq Dead']_vars

C3_Witness ==
  /\ last.op = "get_value" /\ last.res.kind = "StaleHandle"
  /\ Bound(last.h) /\ secret_get(last.h) \in Dead

\* C4: a define whose (usageType, usageID) pair, usageType other than NONE,
\* is already used by a live record fails (with DuplicateKey when its flags
\* are acceptable) and changes nothing: same count, same records, same
\* index entries, same values, no new handle.
C4_DuplicateDefine ==
  [][(/\ Stepped /\ last'.op = "define_secret_xml"
      /\ last'.args[1].usageType # VIR_SECRET_USAGE_TYPE_NONE
      /\ UsageKey(last'.args[1]) \in DOMAIN usageIndex)
       => /\ ~last'.res.ok
          /\ last'.args[2] \in {RNil, Fix(0)} => last'.res.kind = "DuplicateKey"
          /\ virConnectNumOfSecrets' = virConnectNumOfSecrets
          /\ store' = store
          /\ handles' = handles
          /\ lastSet' = lastSet]_vars

C4_Witness ==
  /\ last.op = "define_secret_xml" /\ last.res.kind = "DuplicateKey"
  /\ UsageKey(last.args[1]) \in DOMAIN usageIndex
  /\ usageIndex[UsageKey(last.args[1])] \in DOMAIN vault

\* The define part of C5: with pairwise distinct keys every call succeeds;
\* with one shared key exactly one call succeeds and the others fail with
\* DuplicateKey; at most one live record per UUID and per usage pair.
KeysDistinct ==
  \A t1, t2 \in Threads :
    t1 # t2 => \/ thr[t1].xml.usageType = VIR_SECRET_USAGE_TYPE_NONE
               \/ thr[t2].xml.usageType = VIR_SECRET_USAGE_TYPE_NONE
               \/ UsageKey(thr[t1].xml) # UsageKey(thr[t2].xml)
KeysSame ==
  \A t1, t2 \in Threads :
    /\ thr[t1].xml = thr[t2].xml
    /\ thr[t1].xml.usageType # VIR_SECRET_USAGE_TYPE_NONE
UsageUnique ==
  \A u1, u2 \in Live :
    (u1 # u2 /\ secrets[u1].usageType # VIR_SECRET_USAGE_TYPE_NONE)
      => UsageKey(secrets[u1]) # UsageKey(secrets[u2])
C5_DefinePart ==
  /\ UsageUnique
  /\ (AllDone /\ KeysDistinct) => \A t \in Threads : thr[t].res.ok
  /\ (AllDone /\ KeysSame) =>
       /\ Cardinality({t \in Threads : thr[t].res.ok}) = 1
       /\ \A t \in Threads : ~thr[t].res.ok => thr[t].res.kind = "DuplicateKey"

\* C5: N define calls in any interleaving: distinct keys all succeed and
\* every key (UUID, usage pair) is found by a later lookup; one shared key
\* gives exactly one success and N-1 DuplicateKey failures.
C5_ConcurrentDefine ==
  /\ []C5_DefinePart
  /\ [][(Stepped /\ last'.op = "lookup_secret_by_uuid" /\ last'.args[1] \in Live)
          => (last'.res.ok /\ handles'[last'.res.val.h] = last'.args[1])]_vars
  /\ [][(/\ Stepped /\ last'.op = "lookup_secret_by_usage"
         /\ \E u \in Live : /\ secrets[u].usageType # VIR_SECRET_USAGE_TYPE_NONE
                            /\ last'.args = <<Fix(secrets[u].usageType), Str(secrets[u].usageID)>>)
          => /\ last'.res.ok
             /\ UsageKey(secrets[handles'[last'.res.val.h]]) =
                  <<last'.args[1].n, last'.args[2].s>>]_vars

C7_DefineThenLookupByUsage ==
  [][(/\ last.op = "define_secret_xml" /\ last.res.ok
      /\ last.args[1].usageType # VIR_SECRET_USAGE_TYPE_NONE
      /\ last'.op = "lookup_secret_by_usage"
      /\ last'.args = <<Fix(last.args[1].usageType), Str(last.args[1].usageID)>>)
       => /\ last'.res.ok
          /\ handles'[last'.res.val.h] = handles[last.res.val.h]
          /\ secrets[handles'[last'.res.val.h]].usageID = last.args[1].usageID
          /\ secrets[handles'[last'.res.val.h]].usageType = last.args[1].usageType]_vars

\* C8: a value is stored only for a live record; undefine and connection
\* teardown remove the value entry of every record they destroy, and the
\* memory a removed entry leaves behind holds only zero bytes.
C8_ValueNeverOutlivesRecord ==
  /\ [](/\ DOMAIN vault \subseteq Live
        /\ \A u \in DOMAIN residue :
             /\ u \notin Live
             /\ residue[u] = Zeros(Len(residue[u])))
  /\ [][/\ (Stepped /\ last'.op = "undefine" /\ last'.res.ok)
             => /\ secret_get(last'.h) \notin Live'
                /\ secret_get(last'.h) \notin DOMAIN vault'
                /\ secret_get(last'.h) \in DOMAIN vault
                     => secret_get(last'.h) \in DOMAIN residue'
        /\ (Stepped /\ last'.op = "close")
             => \A u \in Live : secrets[u].isEphemeral
                  => /\ u \notin Live' /\ u \notin DOMAIN vault'
                     /\ u \in DOMAIN vault => u \in DOMAIN residue']_vars

C8_Witness ==
  /\ last.op = "undefine" /\ last.res.ok
  /\ secret_get(last.h) \in DOMAIN residue
  /\ Len(residue[secret_get(last.h)]) = 2

\* C9: free never fails, first or repeated, record defined or not, and leaves
\* the store unchanged, so a lookup by UUID or by usage of a still-defined
\* record right after it succeeds and returns that record.
C9_FreeIndependentOfRecord ==
  [][/\ (Stepped /\ last'.op = "free")
          => (last'.res.ok /\ store' = store /\ lastSet' = lastSet)
     /\ (last.op = "free" /\ Stepped /\ last'.op = "lookup_secret_by_uuid"
           /\ last'.args[1] \in Live)
          => (last'.res.ok /\ handles'[last'.res.val.h] = last'.args[1])
     /\ (/\ last.op = "free" /\ Stepped /\ last'.op = "lookup_secret_by_usage"
         /\ \E u \in Live : /\ secrets[u].usageType # VIR_SECRET_USAGE_TYPE_NONE
                            /\ last'.args = <<Fix(secrets[u].usageType), Str(secrets[u].usageID)>>)
          => /\ last'.res.ok
             /\ UsageKey(secrets[handles'[last'.res.val.h]]) =
                  <<last'.args[1].n, last'.args[2].s>>]_vars

\* The release part of C9 alone: free never fails and changes nothing in the
\* store, and a lookup by UUID of a live record right after it succeeds.
C9_ReleasePart ==
  [][/\ (Stepped /\ last'.op = "free")
          => (last'.res.ok /\ store' = store /\ lastSet' = lastSet)
     /\ (last.op = "free" /\ Stepped /\ last'.op = "lookup_secret_by_uuid"
           /\ last'.args[1] \in Live)
          => (last'.res.ok /\ handles'[last'.res.val.h] = last'.args[1])]_vars

\* C10: a define with non-zero flags is rejected and creates no record, no
\* index entry and no handle; a define with omitted flags behaves as one with
\* flags 0.
C10_DefineFlags ==
  [][(Stepped /\ last'.op = "define_secret_xml")
       => /\ (~NIL_P(last'.args[2]) /\ last'.args[2].n # 0)
               => (~last'.res.ok /\ store' = store /\ handles' = handles)
          /\ (NIL_P(last'.args[2]) \/ last'.args[2] = Fix(0))
               => (last'.res.ok <=> virSecretDefineXML_err(last'.args[1], 0) = "")]_vars

C10_Witness ==
  /\ last.op = "define_secret_xml"
  /\ last.args[2] = Fix(1)
  /\ last.res.kind = "InvalidFlags"
  /\ Live # {}

====
